---- MODULE Spec2Model ----
(***************************************************************************)
(* A model of sum4u.py: audio -> subtitle.srt -> raw_sub.txt -> chunks ->   *)
(* summary.txt.  Text is a sequence of one-character strings, so that the   *)
(* two regular expressions of extract_and_save_text, the formatting done by *)
(* srt.compose and the word wrap done by textwrap.wrap are computed         *)
(* character by character.                                                  *)
(***************************************************************************)
EXTENDS Integers, Sequences, FiniteSets, TLC

VARIABLES
    pc,                  \* position of the script (a label per statement group)
    run,                 \* how many times the script has been started on the output directory
    speech,              \* the input file: the segments whisper hears in the audio at mp3_file_path
    audio,               \* input_audio_array (line 22)
    transcription,       \* transcription["segments"] (line 27)
    srt_content,         \* srt_content (line 40)
    subtitle,            \* file <output_dir>/subtitle.srt
    raw_sub,             \* file <output_dir>/raw_sub.txt
    summary_txt,         \* file <output_dir>/summary.txt
    content,             \* module-level content (line 63)
    ex_content,          \* content inside extract_and_save_text (line 67)
    pure_text,           \* pure_text (lines 68-69, 79)
    chunks,              \* chunks (line 83)
    index,               \* index of the summarization loop (line 107)
    summary,             \* summary (line 109)
    paragraph_summaries, \* paragraph_summaries (line 106)
    api_calls,           \* the requests the remote chat API has received in this run, with their outcomes
    events,              \* the stages started and the file operations done in this run, in order
    start_summary,       \* summary.txt as this run found it
    prev_run,            \* how the previous run on the output directory ended
    fn_in,               \* argument of the function applied by the function specifications
    fn_out               \* its result

vars == <<pc, run, speech, audio, transcription, srt_content, subtitle, raw_sub,
          summary_txt, content, ex_content, pure_text, chunks, index, summary,
          paragraph_summaries, api_calls, events, start_summary, prev_run,
          fn_in, fn_out>>

----------------------------------------------------------------------------
(* Characters and strings *)

DigitChars == <<"0", "1", "2", "3", "4", "5", "6", "7", "8", "9">>

Range(s) == {s[i] : i \in 1..Len(s)}

IsDigit(c) == c \in Range(DigitChars)

\* string.whitespace as textwrap uses it: '\t\n\x0b\x0c\r '
IsWhitespace(c) == c \in {" ", "\t", "\n", "\r", "\f"}

\* [^\d\W]: a word character that is no digit
IsLetter(c) == c \in {"a", "b", "c", "h", "i", "x", "y", "z", "_"}

\* \w
IsWordChar(c) == IsLetter(c) \/ IsDigit(c)

\* [\w!"'&.,?]
IsWordPunct(c) == IsWordChar(c) \/ c \in {"!", "\"", "'", "&", ".", ",", "?"}

Min(S) == CHOOSE x \in S : \A y \in S : x <= y

Max(S) == CHOOSE x \in S : \A y \in S : x >= y

RECURSIVE Concat(_)
\* ''.join(list)
Concat(list) ==
    IF list = <<>> THEN <<>> ELSE Head(list) \o Concat(Tail(list))

RECURSIVE DecimalStr(_)
\* "%d" % n for n >= 0
DecimalStr(n) ==
    IF n < 10 THEN <<DigitChars[n + 1]>>
    ELSE DecimalStr(n \div 10) \o <<DigitChars[(n % 10) + 1]>>

\* "%0<w>d" % n
ZeroPad(n, w) ==
    LET d == DecimalStr(n)
    IN  IF Len(d) >= w THEN d ELSE [i \in 1..(w - Len(d)) |-> "0"] \o d

\* position of the first occurrence of character c in s at or after i, else Len(s)+1
FirstFrom(s, i, P(_)) ==
    Min({j \in i..Len(s) : P(s[j])} \cup {Len(s) + 1})

----------------------------------------------------------------------------
(* The srt library as speech_recognition uses it (lines 39-40).             *)
(* Times are whole milliseconds.                                            *)

\* srt.timedelta_to_srt_timestamp: "%02d:%02d:%02d,%03d" % (hrs, mins, secs, msecs)
timedelta_to_srt_timestamp(ms) ==
    LET hrs   == ms \div 3600000
        mins  == (ms % 3600000) \div 60000
        secs  == (ms % 60000) \div 1000
        msecs == ms % 1000
    IN  ZeroPad(hrs, 2) \o <<":">> \o ZeroPad(mins, 2) \o <<":">>
            \o ZeroPad(secs, 2) \o <<",">> \o ZeroPad(msecs, 3)

\* str.strip("\n")
StripNewlines(s) ==
    LET keep == {i \in 1..Len(s) : s[i] # "\n"}
    IN  IF keep = {} THEN <<>> ELSE SubSeq(s, Min(keep), Max(keep))

\* whether s has the substring "\n\n" at position i
BlankRunAt(s, i) == i < Len(s) /\ s[i] = "\n" /\ s[i + 1] = "\n"

RECURSIVE CollapseFrom(_, _)
\* re.sub(r'\n\n+', '\n', s), scanning from position i
CollapseFrom(s, i) ==
    LET hits == {j \in i..Len(s) : BlankRunAt(s, j)}
    IN  IF hits = {} THEN SubSeq(s, i, Len(s))
        ELSE LET j == Min(hits)
                 k == FirstFrom(s, j, LAMBDA c : c # "\n")
             IN  SubSeq(s, i, j) \o CollapseFrom(s, k)

CollapseBlankLines(s) == CollapseFrom(s, 1)

\* srt.make_legal_content
make_legal_content(text) ==
    IF text # <<>> /\ text[1] # "\n" /\ \A i \in 1..Len(text) : ~BlankRunAt(text, i)
    THEN text
    ELSE CollapseBlankLines(StripNewlines(text))

\* str.strip() = '' : content made of whitespace only
IsBlank(s) == \A i \in 1..Len(s) : IsWhitespace(s[i])

\* srt._should_skip_sub
should_skip_sub(sub) ==
    \/ IsBlank(sub.content)
    \/ sub.start < 0
    \/ sub.start >= sub.end

\* srt.Subtitle.__lt__ : order by (start, end, index)
SubtitleLess(a, b) ==
    \/ a.start < b.start
    \/ a.start = b.start /\ a.end < b.end
    \/ a.start = b.start /\ a.end = b.end /\ a.index < b.index

RECURSIVE SortSubtitles(_)
\* sorted(subtitles)
SortSubtitles(subs) ==
    IF subs = <<>> THEN <<>>
    ELSE LET m == CHOOSE i \in 1..Len(subs) :
                     \A j \in 1..Len(subs) : j = i \/ SubtitleLess(subs[i], subs[j])
                                                   \/ (subs[i] = subs[j] /\ i < j)
         IN  <<subs[m]>> \o SortSubtitles(SubSeq(subs, 1, m - 1) \o SubSeq(subs, m + 1, Len(subs)))

RECURSIVE Reindex(_, _, _)
\* the loop of srt.sort_and_reindex over the sorted subtitles, with skip=True:
\* sub_num counts every subtitle, skipped counts those left out
Reindex(sorted, sub_num, skipped) ==
    IF sorted = <<>> THEN <<>>
    ELSE IF should_skip_sub(Head(sorted))
         THEN Reindex(Tail(sorted), sub_num + 1, skipped + 1)
         ELSE <<[Head(sorted) EXCEPT !.index = sub_num - skipped]>>
                  \o Reindex(Tail(sorted), sub_num + 1, skipped)

\* srt.compose's default start_index
start_index == 1

\* compose called with reindex=False: the subtitles go out as they came in
sort_and_reindex_Off(subtitles) == subtitles

\* srt.sort_and_reindex(subtitles, start_index=1, skip=True)
sort_and_reindex(subtitles) == Reindex(SortSubtitles(subtitles), start_index, 0)

\* srt.Subtitle.to_srt(strict=True, eol="\n")
to_srt(sub) ==
    DecimalStr(sub.index) \o <<"\n">>
        \o timedelta_to_srt_timestamp(sub.start) \o <<" ", "-", "-", ">", " ">>
        \o timedelta_to_srt_timestamp(sub.end) \o <<"\n">>
        \o make_legal_content(sub.content) \o <<"\n", "\n">>

\* srt.compose(subtitles): reindex=True, start_index=1, strict=True
compose(subtitles) ==
    LET subs == sort_and_reindex(subtitles)
    IN  Concat([i \in 1..Len(subs) |-> to_srt(subs[i])])

\* lines 34-39: one srt.Subtitle per segment, index = position from 0
MakeSubtitles(segments) ==
    [i \in 1..Len(segments) |->
        [index |-> i - 1, start |-> segments[i].start, end |-> segments[i].end,
         content |-> segments[i].text]]

----------------------------------------------------------------------------
(* extract_and_save_text (lines 65-72) *)

\* "d" stands for \d, every other entry for itself:
\* \d{2}:\d{2}:\d{2},\d{3} --> \d{2}:\d{2}:\d{2},\d{3}
TimestampShape ==
    <<"d", "d", ":", "d", "d", ":", "d", "d", ",", "d", "d", "d",
      " ", "-", "-", ">", " ",
      "d", "d", ":", "d", "d", ":", "d", "d", ",", "d", "d", "d">>

\* whether the timestamp pattern matches s at position p
TimestampAt(s, p) ==
    /\ p >= 1
    /\ p + Len(TimestampShape) - 1 <= Len(s)
    /\ \A k \in 1..Len(TimestampShape) :
           IF TimestampShape[k] = "d" THEN IsDigit(s[p + k - 1])
           ELSE s[p + k - 1] = TimestampShape[k]

\* the end (exclusive) of a match of \d+\n<timestamp>\n starting at i, or 0
HeaderMatchEnd(s, i) ==
    IF i > Len(s) \/ ~IsDigit(s[i]) THEN 0
    ELSE LET j == FirstFrom(s, i, LAMBDA c : ~IsDigit(c))
             e == j + 1 + Len(TimestampShape)
         IN  IF /\ j <= Len(s) /\ s[j] = "\n"
                /\ TimestampAt(s, j + 1)
                /\ e <= Len(s) /\ s[e] = "\n"
             THEN e + 1 ELSE 0

RECURSIVE RemoveHeadersFrom(_, _)
\* re.sub(r'\d+\n\d{2}:...\n', '', s): leftmost matches, left to right, no rescan
RemoveHeadersFrom(s, i) ==
    LET hits == {j \in i..Len(s) : HeaderMatchEnd(s, j) # 0}
    IN  IF hits = {} THEN SubSeq(s, i, Len(s))
        ELSE LET j == Min(hits)
             IN  SubSeq(s, i, j - 1) \o RemoveHeadersFrom(s, HeaderMatchEnd(s, j))

\* extract_text whose first pattern matches nothing
extract_text_NoHeaderRemoval(srt_text) == CollapseBlankLines(srt_text)

\* lines 68-69
extract_text(srt_text) == CollapseBlankLines(RemoveHeadersFrom(srt_text, 1))

----------------------------------------------------------------------------
(* chunk_text (lines 74-75): textwrap.wrap(text, max_length) with the       *)
(* defaults expand_tabs, replace_whitespace, drop_whitespace,               *)
(* break_long_words and break_on_hyphens all True, tabsize 8.               *)

tabsize == 8

RECURSIVE ExpandFrom(_, _, _)
\* str.expandtabs(tabsize): col is the column of position i
ExpandFrom(s, i, col) ==
    IF i > Len(s) THEN <<>>
    ELSE IF s[i] = "\t"
         THEN LET n == tabsize - (col % tabsize)
              IN  [k \in 1..n |-> " "] \o ExpandFrom(s, i + 1, 0)
         ELSE <<s[i]>> \o ExpandFrom(s, i + 1, IF s[i] \in {"\n", "\r"} THEN 0 ELSE col + 1)

expandtabs(s) == IF "\t" \in Range(s) THEN ExpandFrom(s, 1, 0) ELSE s

\* TextWrapper._munge_whitespace
munge_whitespace(text) ==
    LET t == expandtabs(text)
    IN  [i \in 1..Len(t) |-> IF IsWhitespace(t[i]) THEN " " ELSE t[i]]

At(t, i) == IF i >= 1 /\ i <= Len(t) THEN t[i] ELSE "EOF"

\* -{2,}(?=\w) at position i: the end (exclusive) of the run of hyphens, or 0
DashRunEnd(t, i) ==
    LET e == FirstFrom(t, i, LAMBDA c : c # "-")
    IN  IF i <= Len(t) /\ t[i] = "-" /\ e - i >= 2 /\ IsWordChar(At(t, e)) THEN e ELSE 0

\* the three ways a word chunk may end after its last character j (wordsep_re):
\* a hyphen inside a hyphenated word, the end of the word, an em-dash ahead.
\* The end (exclusive) of the chunk, or 0.
WordTail(t, j) ==
    IF /\ At(t, j + 1) = "-"
       /\ \/ IsLetter(At(t, j - 1)) /\ IsLetter(At(t, j))
          \/ IsLetter(At(t, j - 2)) /\ At(t, j - 1) = "-" /\ IsLetter(At(t, j))
       /\ IsLetter(At(t, j + 2))
       /\ \/ IsLetter(At(t, j + 3))
          \/ At(t, j + 3) = "-" /\ IsLetter(At(t, j + 4))
    THEN j + 2
    ELSE IF j + 1 > Len(t) \/ IsWhitespace(At(t, j + 1)) THEN j + 1
    ELSE IF IsWordPunct(At(t, j)) /\ DashRunEnd(t, j + 1) # 0 THEN j + 1
    ELSE 0

\* the end (exclusive) of the match of wordsep_re that starts at i
ChunkEnd(t, i) ==
    IF IsWhitespace(t[i]) THEN FirstFrom(t, i, LAMBDA c : ~IsWhitespace(c))
    ELSE IF IsWordPunct(At(t, i - 1)) /\ DashRunEnd(t, i) # 0 THEN DashRunEnd(t, i)
    ELSE LET wordEnd == FirstFrom(t, i, IsWhitespace) - 1
         IN  WordTail(t, Min({j \in i..wordEnd : WordTail(t, j) # 0}))

RECURSIVE SplitFrom(_, _)
\* TextWrapper._split: wordsep_re.split(text) without the empty strings
SplitFrom(t, i) ==
    IF i > Len(t) THEN <<>>
    ELSE LET e == ChunkEnd(t, i)
         IN  <<SubSeq(t, i, e - 1)>> \o SplitFrom(t, e)

split(t) == SplitFrom(t, 1)

RECURSIVE TakeFit_OffByOne(_, _, _, _)
\* TakeFit with the test cur_len + l <= width let one character too many through
TakeFit_OffByOne(cs, k, cur_len, width) ==
    IF k <= Len(cs) /\ cur_len + Len(cs[k]) <= width + 1
    THEN TakeFit_OffByOne(cs, k + 1, cur_len + Len(cs[k]), width)
    ELSE k

RECURSIVE TakeFit(_, _, _, _)
\* the inner loop of _wrap_chunks: the first chunk, from k on, that no longer fits
TakeFit(cs, k, cur_len, width) ==
    IF k <= Len(cs) /\ cur_len + Len(cs[k]) <= width
    THEN TakeFit(cs, k + 1, cur_len + Len(cs[k]), width)
    ELSE k

\* TextWrapper._handle_long_word with break_long_words and break_on_hyphens:
\* how many characters of chunk go onto the current line
LongWordCut(chunk, space_left) ==
    LET found  == {h \in 1..Min({space_left, Len(chunk)}) : chunk[h] = "-"}
        hyphen == IF found = {} THEN 0 ELSE Max(found)   \* chunk.rfind('-', 0, space_left) + 1
    IN  IF /\ Len(chunk) > space_left
           /\ hyphen > 1
           /\ \E k \in 1..(hyphen - 1) : chunk[k] # "-"
        THEN hyphen
        ELSE space_left

RECURSIVE WrapChunks(_, _, _)
\* TextWrapper._wrap_chunks: one line per step
WrapChunks(cs0, lines, width) ==
    IF cs0 = <<>> THEN lines
    ELSE LET cs   == IF IsBlank(cs0[1]) /\ lines # <<>> THEN Tail(cs0) ELSE cs0
             k    == TakeFit(cs, 1, 0, width)
             fit  == SubSeq(cs, 1, k - 1)
             rest == SubSeq(cs, k, Len(cs))
             long == rest # <<>> /\ Len(rest[1]) > width
             cut  == IF long THEN LongWordCut(rest[1], width - Len(Concat(fit))) ELSE 0
             cur_line == IF long THEN Append(fit, SubSeq(rest[1], 1, cut)) ELSE fit
             left == IF long
                     THEN <<SubSeq(rest[1], cut + 1, Len(rest[1]))>> \o Tail(rest)
                     ELSE rest
             kept == IF cur_line # <<>> /\ IsBlank(cur_line[Len(cur_line)])
                     THEN SubSeq(cur_line, 1, Len(cur_line) - 1)
                     ELSE cur_line
         IN  WrapChunks(left, IF kept # <<>> THEN Append(lines, Concat(kept)) ELSE lines, width)

\* chunk_text with replace_whitespace switched off
chunk_text_KeepWhitespace(text, max_length) == WrapChunks(split(text), <<>>, max_length)

\* chunk_text returning one empty chunk for an empty text, as str.split would
chunk_text_EmptyChunk(text, max_length) ==
    IF WrapChunks(split(munge_whitespace(text)), <<>>, max_length) = <<>>
    THEN << <<>> >>
    ELSE WrapChunks(split(munge_whitespace(text)), <<>>, max_length)

\* lines 74-75
chunk_text(text, max_length) == WrapChunks(split(munge_whitespace(text)), <<>>, max_length)

----------------------------------------------------------------------------
(* Files *)

\* a file of the output directory: data is what a reader gets, buf what an
\* open writer has written and not yet flushed
NoFile == [exists |-> FALSE, data |-> <<>>, buf |-> <<>>, mode |-> "closed"]

\* open(path, "w"): creates or truncates
open_w(f) == [exists |-> TRUE, data |-> <<>>, buf |-> <<>>, mode |-> "w"]

\* open_a with the mode "w" of the two other files
open_a_Truncating(f) == [exists |-> TRUE, data |-> <<>>, buf |-> <<>>, mode |-> "w"]

\* open(path, "a"): creates, keeps what is there
open_a(f) == [f EXCEPT !.exists = TRUE, !.mode = "a"]

\* file.write(s)
write(f, s) == [f EXCEPT !.buf = @ \o s]

\* close that drops what was written and not yet flushed
close_NoFlush(f) == [f EXCEPT !.buf = <<>>, !.mode = "closed"]

\* leaving the with block: flush and close
close(f) == [f EXCEPT !.data = @ \o f.buf, !.buf = <<>>, !.mode = "closed"]

\* file.read() of a file opened with "r"
read(f) == f.data

----------------------------------------------------------------------------
(* Constants of the script *)

\* line 77
chunk_length == 512

\* line 105; the three characters before <text> are written by their code points
summarization_prompt_template ==
    <<"G", "e", "n", "e", "r", "a", "t", "e", " ", "a", " ", "s", "u", "m", "m", "a", "r", "y", " ", "w", "i", "t", "h", "i", "n", " ", "f", "e", "w", " ", "s", "e", "n", "t", "e", "n", "c", "e", "s",
      "U+00EF", "U+00BC", "U+0161", "<", "t", "e", "x", "t", ">">>

Placeholder == <<"<", "t", "e", "x", "t", ">">>

OccursAt(s, old, i) ==
    i + Len(old) - 1 <= Len(s) /\ SubSeq(s, i, i + Len(old) - 1) = old

RECURSIVE ReplaceFrom(_, _, _, _)
\* str.replace(old, new), scanning from position i
ReplaceFrom(s, old, new, i) ==
    LET hits == {j \in i..Len(s) : OccursAt(s, old, j)}
    IN  IF hits = {} THEN SubSeq(s, i, Len(s))
        ELSE SubSeq(s, i, Min(hits) - 1) \o new
                 \o ReplaceFrom(s, old, new, Min(hits) + Len(old))

\* MakePrompt without the substitution of line 108
MakePrompt_NoSubstitution(chunk) == summarization_prompt_template

\* line 108
MakePrompt(chunk) == ReplaceFrom(summarization_prompt_template, Placeholder, chunk, 1)

\* Python's None where a string is expected, and the variables not yet assigned
None == <<"None">>

NoList == <<None>>

NoSegments == <<[start |-> 0 - 1, end |-> 0 - 1, text |-> None]>>

NoIndex == 0 - 1

----------------------------------------------------------------------------
(* Bounds and inputs of the pipeline *)

MaxRuns == 2

MaxSegments == 2

LongWordLen == 300

\* texts whisper may return for a segment: nothing, and two words long enough
\* that two of them do not fit one chunk
SegmentTexts ==
    { <<>>,
      <<" ">> \o [i \in 1..LongWordLen |-> "a"],
      <<" ">> \o [i \in 1..LongWordLen |-> "b"] }

\* the segment lists whisper may hear in an audio file: consecutive one-second
\* segments
Transcriptions ==
    UNION { { [i \in 1..k |-> [start |-> 1000 * (i - 1), end |-> 1000 * i, text |-> t[i]]]
              : t \in [1..k -> SegmentTexts] } : k \in 0..MaxSegments }

\* what the chat API may do with a request: answer with a completion, or fail
Outcomes ==
    { [kind |-> "ok", text |-> <<"S", ".">>],
      [kind |-> "ok", text |-> <<"T">>],
      [kind |-> "error", text |-> None] }

\* summary.txt as the first run may find it
InitialSummaries == { NoFile, [NoFile EXCEPT !.exists = TRUE, !.data = <<"P", "\n">>] }

Event(op, what) == [op |-> op, what |-> what]

NoRun == [pc |-> "None", summaries |-> NoList, start |-> NoFile, srt |-> None]

----------------------------------------------------------------------------
(* The script *)

locals == <<audio, transcription, srt_content, content, ex_content, pure_text,
            chunks, index, summary, paragraph_summaries>>

files == <<subtitle, raw_sub, summary_txt>>

ghosts == <<speech, start_summary, prev_run, fn_in, fn_out>>

\* the statements of the script up to the loop, in the order of the file
Script ==
    <<"load", "transcribe", "compose", "subtitle_open", "subtitle_write",
      "subtitle_close", "read_subtitle", "extract_read", "extract_sub",
      "raw_sub_open", "raw_sub_write", "raw_sub_close", "chunk", "client",
      "loop_init", "loop">>

\* After for a script without the read of lines 62-63
After_SkipModuleRead(label) ==
    IF label = "subtitle_close" THEN "extract_read"
    ELSE Script[1 + CHOOSE i \in 1..Len(Script) : Script[i] = label]

\* the statement that follows label
After(label) == Script[1 + CHOOSE i \in 1..Len(Script) : Script[i] = label]

\* AfterCall for a loop that catches the error and goes on
AfterCall_Swallow(o) == "append"

\* lines 93-103 and 109: an error of the request is not caught and ends the script
AfterCall(o) == IF o.kind = "error" THEN "aborted" ELSE "append"

Init ==
    /\ pc = "load"
    /\ run = 1
    /\ speech \in Transcriptions
    /\ audio = "None" /\ transcription = NoSegments /\ srt_content = None
    /\ content = None /\ ex_content = None /\ pure_text = None
    /\ chunks = NoList /\ index = NoIndex /\ summary = None
    /\ paragraph_summaries = NoList
    /\ subtitle = NoFile /\ raw_sub = NoFile
    /\ summary_txt \in InitialSummaries
    /\ start_summary = summary_txt
    /\ api_calls = <<>>
    /\ events = <<>>
    /\ prev_run = NoRun
    /\ fn_in = None /\ fn_out = None

\* line 22: librosa.load, which raises on an unreadable file
Load ==
    /\ pc = "load"
    /\ events' = Append(events, Event("stage", "load"))
    /\ \/ audio' = "samples" /\ pc' = After(pc)
       \/ audio' = audio /\ pc' = "aborted"
    /\ UNCHANGED <<run, transcription, srt_content, content, ex_content, pure_text,
                   chunks, index, summary, paragraph_summaries, api_calls>>
    /\ UNCHANGED files /\ UNCHANGED ghosts

\* lines 55, 26-33: the model returns the segments of the audio (temperature
\* 0.0: the same audio gives the same segments)
Transcribe ==
    /\ pc = "transcribe"
    /\ transcription' = speech
    /\ events' = Append(events, Event("stage", "transcribe"))
    /\ pc' = After(pc)
    /\ UNCHANGED <<run, audio, srt_content, content, ex_content, pure_text,
                   chunks, index, summary, paragraph_summaries, api_calls>>
    /\ UNCHANGED files /\ UNCHANGED ghosts

\* lines 34-40
Compose ==
    /\ pc = "compose"
    /\ srt_content' = compose(MakeSubtitles(transcription))
    /\ pc' = After(pc)
    /\ UNCHANGED <<run, audio, transcription, content, ex_content, pure_text,
                   chunks, index, summary, paragraph_summaries, api_calls, events>>
    /\ UNCHANGED files /\ UNCHANGED ghosts

\* line 41
SubtitleOpen ==
    /\ pc = "subtitle_open"
    /\ subtitle' = open_w(subtitle)
    /\ events' = Append(events, Event("open", "subtitle.srt"))
    /\ pc' = After(pc)
    /\ UNCHANGED <<run, raw_sub, summary_txt, api_calls>>
    /\ UNCHANGED locals /\ UNCHANGED ghosts

\* line 42
SubtitleWrite ==
    /\ pc = "subtitle_write"
    /\ subtitle' = write(subtitle, srt_content)
    /\ events' = Append(events, Event("write", "subtitle.srt"))
    /\ pc' = After(pc)
    /\ UNCHANGED <<run, raw_sub, summary_txt, api_calls>>
    /\ UNCHANGED locals /\ UNCHANGED ghosts

\* end of the with block of line 41
SubtitleClose ==
    /\ pc = "subtitle_close"
    /\ subtitle' = close(subtitle)
    /\ events' = Append(events, Event("close", "subtitle.srt"))
    /\ pc' = After(pc)
    /\ UNCHANGED <<run, raw_sub, summary_txt, api_calls>>
    /\ UNCHANGED locals /\ UNCHANGED ghosts

\* lines 62-63
ReadSubtitle ==
    /\ pc = "read_subtitle"
    /\ content' = read(subtitle)
    /\ events' = Append(events, Event("read", "subtitle.srt"))
    /\ pc' = After(pc)
    /\ UNCHANGED <<run, audio, transcription, srt_content, ex_content, pure_text,
                   chunks, index, summary, paragraph_summaries, api_calls>>
    /\ UNCHANGED files /\ UNCHANGED ghosts

\* lines 79, 66-67
ExtractRead ==
    /\ pc = "extract_read"
    /\ ex_content' = read(subtitle)
    /\ events' = events \o <<Event("stage", "extract"), Event("read", "subtitle.srt")>>
    /\ pc' = After(pc)
    /\ UNCHANGED <<run, audio, transcription, srt_content, content, pure_text,
                   chunks, index, summary, paragraph_summaries, api_calls>>
    /\ UNCHANGED files /\ UNCHANGED ghosts

\* lines 68-69
ExtractSub ==
    /\ pc = "extract_sub"
    /\ pure_text' = extract_text(ex_content)
    /\ pc' = After(pc)
    /\ UNCHANGED <<run, audio, transcription, srt_content, content, ex_content,
                   chunks, index, summary, paragraph_summaries, api_calls, events>>
    /\ UNCHANGED files /\ UNCHANGED ghosts

\* line 70
RawSubOpen ==
    /\ pc = "raw_sub_open"
    /\ raw_sub' = open_w(raw_sub)
    /\ events' = Append(events, Event("open", "raw_sub.txt"))
    /\ pc' = After(pc)
    /\ UNCHANGED <<run, subtitle, summary_txt, api_calls>>
    /\ UNCHANGED locals /\ UNCHANGED ghosts

\* line 71
RawSubWrite ==
    /\ pc = "raw_sub_write"
    /\ raw_sub' = write(raw_sub, pure_text)
    /\ events' = Append(events, Event("write", "raw_sub.txt"))
    /\ pc' = After(pc)
    /\ UNCHANGED <<run, subtitle, summary_txt, api_calls>>
    /\ UNCHANGED locals /\ UNCHANGED ghosts

\* end of the with block of line 70, and line 72
RawSubClose ==
    /\ pc = "raw_sub_close"
    /\ raw_sub' = close(raw_sub)
    /\ events' = Append(events, Event("close", "raw_sub.txt"))
    /\ pc' = After(pc)
    /\ UNCHANGED <<run, subtitle, summary_txt, api_calls>>
    /\ UNCHANGED locals /\ UNCHANGED ghosts

\* line 83
Chunk ==
    /\ pc = "chunk"
    /\ chunks' = chunk_text(pure_text, chunk_length)
    /\ events' = Append(events, Event("stage", "chunk"))
    /\ pc' = After(pc)
    /\ UNCHANGED <<run, audio, transcription, srt_content, content, ex_content,
                   pure_text, index, summary, paragraph_summaries, api_calls>>
    /\ UNCHANGED files /\ UNCHANGED ghosts

\* line 85: OpenAI() raises when the ambient credentials are missing
MakeClient ==
    /\ pc = "client"
    /\ \/ pc' = After(pc)
       \/ pc' = "aborted"
    /\ UNCHANGED <<run, api_calls, events>>
    /\ UNCHANGED locals /\ UNCHANGED files /\ UNCHANGED ghosts

\* lines 105-106
LoopInit ==
    /\ pc = "loop_init"
    /\ paragraph_summaries' = <<>>
    /\ index' = 0
    /\ events' = Append(events, Event("stage", "summarize"))
    /\ pc' = After(pc)
    /\ UNCHANGED <<run, audio, transcription, srt_content, content, ex_content,
                   pure_text, chunks, summary, api_calls>>
    /\ UNCHANGED files /\ UNCHANGED ghosts

\* line 107: the next chunk, or the end of the script
LoopNext ==
    /\ pc = "loop"
    /\ \/ index < Len(chunks) /\ pc' = "call"
       \/ index >= Len(chunks) /\ pc' = "done"
    /\ UNCHANGED <<run, api_calls, events>>
    /\ UNCHANGED locals /\ UNCHANGED files /\ UNCHANGED ghosts

\* lines 108-116 and 92-103: one request to the chat API
Call ==
    /\ pc = "call"
    /\ \E o \in Outcomes :
         /\ api_calls' = Append(api_calls, [prompt |-> MakePrompt(chunks[index + 1]),
                                             outcome |-> o])
         /\ summary' = IF o.kind = "ok" THEN o.text ELSE summary
         /\ pc' = AfterCall(o)
    /\ events' = Append(events, Event("call", "chat API"))
    /\ UNCHANGED <<run, audio, transcription, srt_content, content, ex_content,
                   pure_text, chunks, index, paragraph_summaries>>
    /\ UNCHANGED files /\ UNCHANGED ghosts

\* line 117
AppendSummary ==
    /\ pc = "append"
    /\ paragraph_summaries' = Append(paragraph_summaries, summary)
    /\ pc' = "summary_open"
    /\ UNCHANGED <<run, audio, transcription, srt_content, content, ex_content,
                   pure_text, chunks, index, summary, api_calls, events>>
    /\ UNCHANGED files /\ UNCHANGED ghosts

\* line 118
SummaryOpen ==
    /\ pc = "summary_open"
    /\ summary_txt' = open_a(summary_txt)
    /\ events' = Append(events, Event("open", "summary.txt"))
    /\ pc' = "summary_write"
    /\ UNCHANGED <<run, subtitle, raw_sub, api_calls>>
    /\ UNCHANGED locals /\ UNCHANGED ghosts

\* line 119
SummaryWrite ==
    /\ pc = "summary_write"
    /\ summary_txt' = write(summary_txt, summary)
    /\ events' = Append(events, Event("write", "summary.txt"))
    /\ pc' = "summary_close"
    /\ UNCHANGED <<run, subtitle, raw_sub, api_calls>>
    /\ UNCHANGED locals /\ UNCHANGED ghosts

\* end of the with block of line 118; the loop goes to its next index
SummaryClose ==
    /\ pc = "summary_close"
    /\ summary_txt' = close(summary_txt)
    /\ events' = Append(events, Event("close", "summary.txt"))
    /\ index' = index + 1
    /\ pc' = "loop"
    /\ UNCHANGED <<run, audio, transcription, srt_content, content, ex_content,
                   pure_text, chunks, summary, paragraph_summaries, api_calls>>
    /\ UNCHANGED <<subtitle, raw_sub>> /\ UNCHANGED ghosts

\* the script is started again on the same output directory: the files stay,
\* everything else starts afresh
Rerun ==
    /\ pc \in {"done", "aborted"}
    /\ run < MaxRuns
    /\ run' = run + 1
    /\ pc' = "load"
    /\ audio' = "None" /\ transcription' = NoSegments /\ srt_content' = None
    /\ content' = None /\ ex_content' = None /\ pure_text' = None
    /\ chunks' = NoList /\ index' = NoIndex /\ summary' = None
    /\ paragraph_summaries' = NoList
    /\ api_calls' = <<>>
    /\ events' = <<>>
    /\ start_summary' = summary_txt
    /\ prev_run' = [pc |-> pc, summaries |-> paragraph_summaries,
                    start |-> start_summary, srt |-> srt_content]
    /\ UNCHANGED files /\ UNCHANGED <<speech, fn_in, fn_out>>

\* one run of the script
Next ==
    \/ Load \/ Transcribe \/ Compose
    \/ SubtitleOpen \/ SubtitleWrite \/ SubtitleClose
    \/ ReadSubtitle
    \/ ExtractRead \/ ExtractSub \/ RawSubOpen \/ RawSubWrite \/ RawSubClose
    \/ Chunk \/ MakeClient \/ LoopInit \/ LoopNext \/ Call
    \/ AppendSummary \/ SummaryOpen \/ SummaryWrite \/ SummaryClose

Spec == Init /\ [][Next]_vars

----------------------------------------------------------------------------
(* The script run again and again on the same audio file and the same       *)
(* output directory.                                                        *)

MaxRerunSegments == 1

RerunTranscriptions == { t \in Transcriptions : Len(t) <= MaxRerunSegments }

InitRerun ==
    /\ pc = "load"
    /\ run = 1
    /\ speech \in RerunTranscriptions
    /\ audio = "None" /\ transcription = NoSegments /\ srt_content = None
    /\ content = None /\ ex_content = None /\ pure_text = None
    /\ chunks = NoList /\ index = NoIndex /\ summary = None
    /\ paragraph_summaries = NoList
    /\ subtitle = NoFile /\ raw_sub = NoFile
    /\ summary_txt \in InitialSummaries
    /\ start_summary = summary_txt
    /\ api_calls = <<>>
    /\ events = <<>>
    /\ prev_run = NoRun
    /\ fn_in = None /\ fn_out = None

NextRerun ==
    \/ Load \/ Transcribe \/ Compose
    \/ SubtitleOpen \/ SubtitleWrite \/ SubtitleClose
    \/ ReadSubtitle
    \/ ExtractRead \/ ExtractSub \/ RawSubOpen \/ RawSubWrite \/ RawSubClose
    \/ Chunk \/ MakeClient \/ LoopInit \/ LoopNext \/ Call
    \/ AppendSummary \/ SummaryOpen \/ SummaryWrite \/ SummaryClose
    \/ Rerun

SpecRerun == InitRerun /\ [][NextRerun]_vars

----------------------------------------------------------------------------
(* speech_recognition and extract_and_save_text on more transcripts: the    *)
(* script from line 34 to line 72, started with any segment list.           *)

MaxSrtSegments == 2

\* 00:00:01,000 --> 00:00:02,000 : a text that looks like a timestamp line
TimestampText ==
    timedelta_to_srt_timestamp(1000) \o <<" ", "-", "-", ">", " ">>
        \o timedelta_to_srt_timestamp(2000)

SrtTexts ==
    { <<>>,
      <<" ", "h", "i">>,
      <<"h", "i", "\n">>,
      <<"1", "2">>,
      <<"a", "\n", "\n", "b", "9">>,
      TimestampText,
      <<"7", "\n">> \o TimestampText \o <<"\n", "x">> }

\* start and end of a segment, in milliseconds; the last one is empty
SrtSpans == { <<0, 1000>>, <<1000, 2500>>, <<2500, 2500>> }

SrtTranscriptions ==
    UNION { { [i \in 1..k |-> [start |-> sp[i][1], end |-> sp[i][2], text |-> t[i]]]
              : t \in [1..k -> SrtTexts], sp \in [1..k -> SrtSpans] }
            : k \in 0..MaxSrtSegments }

InitSrt ==
    /\ pc = "compose"
    /\ run = 1
    /\ speech \in SrtTranscriptions
    /\ audio = "samples"
    /\ transcription = speech
    /\ srt_content = None
    /\ content = None /\ ex_content = None /\ pure_text = None
    /\ chunks = NoList /\ index = NoIndex /\ summary = None
    /\ paragraph_summaries = NoList
    /\ subtitle = NoFile /\ raw_sub = NoFile /\ summary_txt = NoFile
    /\ start_summary = summary_txt
    /\ api_calls = <<>>
    /\ events = <<Event("stage", "load"), Event("stage", "transcribe")>>
    /\ prev_run = NoRun
    /\ fn_in = None /\ fn_out = None

NextSrt ==
    \/ Compose
    \/ SubtitleOpen \/ SubtitleWrite \/ SubtitleClose
    \/ ReadSubtitle
    \/ ExtractRead \/ ExtractSub \/ RawSubOpen \/ RawSubWrite \/ RawSubClose

SpecSrt == InitSrt /\ [][NextSrt]_vars

----------------------------------------------------------------------------
(* chunk_text on any text and any width *)

MaxTextLen == 6

MaxWidth == 5

ChunkAlphabet == {"a", "-", " ", "\n"}

ChunkTexts == UNION { [1..k -> ChunkAlphabet] : k \in 0..MaxTextLen }

InitChunk ==
    /\ pc = "chunk_text"
    /\ run = 1
    /\ speech = <<>>
    /\ audio = "None" /\ transcription = NoSegments /\ srt_content = None
    /\ content = None /\ ex_content = None /\ pure_text = None
    /\ chunks = NoList /\ index = NoIndex /\ summary = None
    /\ paragraph_summaries = NoList
    /\ subtitle = NoFile /\ raw_sub = NoFile /\ summary_txt = NoFile
    /\ start_summary = summary_txt
    /\ api_calls = <<>>
    /\ events = <<>>
    /\ prev_run = NoRun
    /\ fn_in \in { [text |-> t, max_length |-> w] : t \in ChunkTexts, w \in 1..MaxWidth }
    /\ fn_out = NoList

\* lines 74-75
CallChunkText ==
    /\ pc = "chunk_text"
    /\ fn_out' = chunk_text(fn_in.text, fn_in.max_length)
    /\ pc' = "returned"
    /\ UNCHANGED <<run, speech, api_calls, events, start_summary, prev_run, fn_in>>
    /\ UNCHANGED locals /\ UNCHANGED files

NextChunk == CallChunkText

SpecChunk == InitChunk /\ [][NextChunk]_vars

----------------------------------------------------------------------------
(* Claims about chunk_text (specification SpecChunk) *)

RECURSIVE Placements(_, _, _, _)
\* the ways to find lines[k], lines[k+1], ... in t at or after position from,
\* in this order and without overlap: the sequences of their first positions
Placements(t, lines, k, from) ==
    IF k > Len(lines) THEN {<<>>}
    ELSE UNION { { <<p>> \o rest : rest \in Placements(t, lines, k + 1, p + Len(lines[k])) }
                 : p \in { q \in from..(Len(t) - Len(lines[k]) + 1) :
                             SubSeq(t, q, q + Len(lines[k]) - 1) = lines[k] } }

\* the positions of t that the lines placed at offs do not cover
Uncovered(t, lines, offs) ==
    { i \in 1..Len(t) : \A k \in 1..Len(lines) : i < offs[k] \/ i >= offs[k] + Len(lines[k]) }

\* the lines are pieces of t, in order, without overlap, and what lies between
\* them is whitespace only
CoversInOrder(t, lines) ==
    \E offs \in Placements(t, lines, 1, 1) :
        \A i \in Uncovered(t, lines, offs) : IsWhitespace(t[i])

\* the length of the word of t (a maximal run without whitespace) around position i
WordLenAt(t, i) ==
    LET before == Max({j \in 1..i : IsWhitespace(t[j])} \cup {0})
        after  == Min({j \in i..Len(t) : IsWhitespace(t[j])} \cup {Len(t) + 1})
    IN  after - before - 1

\* a place where a line ends and the next begins with no whitespace at the
\* break: e is the last position of the one, e + 1 the first of the other
MidWordBreaks(t, lines, offs) ==
    { offs[k] + Len(lines[k]) - 1 : k \in { j \in 1..(Len(lines) - 1) :
          /\ offs[j + 1] = offs[j] + Len(lines[j])
          /\ ~IsWhitespace(t[offs[j + 1] - 1])
          /\ ~IsWhitespace(t[offs[j + 1]]) } }

Returned == pc = "returned"

AllWithinWidth ==
    \A k \in 1..Len(fn_out) :
        \/ Len(fn_out[k]) <= fn_in.max_length
        \/ /\ \A i \in 1..Len(fn_out[k]) : ~IsWhitespace(fn_out[k][i])
           /\ Len(fn_out[k]) > fn_in.max_length

\* C5 as stated: every chunk is at most W long unless it is a single word
\* longer than W, and a break is at whitespace or inside a word longer than W.
C5_Original ==
    Returned =>
        /\ AllWithinWidth
        /\ \E offs \in Placements(munge_whitespace(fn_in.text), fn_out, 1, 1) :
               \A e \in MidWordBreaks(munge_whitespace(fn_in.text), fn_out, offs) :
                   WordLenAt(munge_whitespace(fn_in.text), e) > fn_in.max_length

\* C5 amended: every chunk is at most W long (a word longer than W is cut into
\* pieces of at most W), and a break is at whitespace, next to a hyphen, or
\* inside a word longer than W.
C5_ChunkWidthAndBreaks ==
    Returned =>
        /\ \A k \in 1..Len(fn_out) : Len(fn_out[k]) <= fn_in.max_length
        /\ \E offs \in Placements(munge_whitespace(fn_in.text), fn_out, 1, 1) :
               \A e \in MidWordBreaks(munge_whitespace(fn_in.text), fn_out, offs) :
                   \/ WordLenAt(munge_whitespace(fn_in.text), e) > fn_in.max_length
                   \/ munge_whitespace(fn_in.text)[e] = "-"
                   \/ munge_whitespace(fn_in.text)[e + 1] = "-"

\* a word longer than the width was cut, and a word that fits was broken after
\* its hyphen
C5_Witness ==
    /\ Returned
    /\ fn_in.max_length = 5
    /\ \/ fn_in.text = <<" ", "a", "a", "-", "a", "a">> /\ fn_out = << <<" ", "a", "a", "-">>, <<"a", "a">> >>
       \/ fn_in.text = <<"a", "a", "a", "a", "a", "a">> /\ Len(fn_out) = 2

\* C6 as stated: each chunk is a substring of the text, the chunks lie in the
\* text in the order returned without overlap, and only whitespace is left out.
C6_Original == Returned => CoversInOrder(fn_in.text, fn_out)

\* C6 amended: the same of the text after textwrap's whitespace normalisation
\* (tabs expanded, every whitespace character replaced by a space).
C6_ChunksCoverNormalisedText ==
    Returned => CoversInOrder(munge_whitespace(fn_in.text), fn_out)

\* a chunk that spans a line break of the text
C6_Witness ==
    /\ Returned
    /\ fn_in.text = <<"a", "\n", "a", " ", "a", "a">>
    /\ fn_in.max_length = 3
    /\ fn_out = << <<"a", " ", "a">>, <<"a", "a">> >>

----------------------------------------------------------------------------
(* Claims about speech_recognition and extract_and_save_text (SpecSrt) *)

\* position p of s starts a line that is exactly a timestamp line
TimestampLineAt(s, p) ==
    /\ p = 1 \/ s[p - 1] = "\n"
    /\ TimestampAt(s, p)
    /\ p + Len(TimestampShape) > Len(s) \/ s[p + Len(TimestampShape)] = "\n"

HasTimestampLine(s) == \E p \in 1..Len(s) : TimestampLineAt(s, p)

\* two empty lines in a row: a line break at the start of a line, twice
HasBlankLineRun(s) ==
    \E p \in 1..(Len(s) - 1) :
        /\ s[p] = "\n" /\ s[p + 1] = "\n"
        /\ p = 1 \/ s[p - 1] = "\n"

Extracted == pc \in {"raw_sub_open", "raw_sub_write", "raw_sub_close", "chunk"}

RawSubWritten == pc = "chunk"

\* C7 as stated: whatever the text of the blocks, the extracted text has no
\* timestamp line and no run of blank lines.
C7_Original ==
    /\ Extracted => ~HasTimestampLine(pure_text) /\ ~HasBlankLineRun(pure_text)
    /\ RawSubWritten => ~HasTimestampLine(raw_sub.data) /\ ~HasBlankLineRun(raw_sub.data)

\* C7 amended: the extracted text (returned and written to raw_sub.txt) never
\* has a run of blank lines, and has no timestamp line provided that no line of
\* a segment's text is itself a timestamp line.
C7_ExtractedTextClean ==
    /\ Extracted =>
         /\ ~HasBlankLineRun(pure_text)
         /\ (\A i \in 1..Len(transcription) : ~HasTimestampLine(transcription[i].text))
                => ~HasTimestampLine(pure_text)
    /\ RawSubWritten => raw_sub.data = pure_text /\ raw_sub.mode = "closed"

\* two blocks were written, one with a text made of digits, and their two
\* timestamp lines are gone from the extracted text
C7_Witness ==
    /\ RawSubWritten
    /\ Len(transcription) = 2
    /\ transcription[1].text = <<"1", "2">>
    /\ transcription[2].text = <<"a", "\n", "\n", "b", "9">>
    /\ transcription[1].start < transcription[1].end
    /\ transcription[2].start < transcription[2].end
    /\ HasTimestampLine(subtitle.data)
    /\ raw_sub.data = <<"1", "2", "\n", "a", "\n", "b", "9", "\n">>

\* the block of a subtitle file: index, timestamps, text, empty line
Block(idx, seg) ==
    DecimalStr(idx) \o <<"\n">>
        \o timedelta_to_srt_timestamp(seg.start) \o <<" ", "-", "-", ">", " ">>
        \o timedelta_to_srt_timestamp(seg.end) \o <<"\n">>
        \o seg.text \o <<"\n", "\n">>

SubtitleWritten ==
    pc \in {"read_subtitle", "extract_read", "extract_sub", "raw_sub_open",
            "raw_sub_write", "raw_sub_close", "chunk"}

\* C8 as stated: one block per segment, in segment order, the block of the
\* i-th segment (from 0) carrying index i.
C8_Original ==
    SubtitleWritten =>
        subtitle.data = Concat([i \in 1..Len(transcription) |-> Block(i - 1, transcription[i])])

\* the segments srt.compose keeps: a text that is not blank, 0 <= start < end
Kept(segs) ==
    { i \in 1..Len(segs) :
        ~IsBlank(segs[i].text) /\ segs[i].start >= 0 /\ segs[i].start < segs[i].end }

\* segment i comes before segment j in the file: earlier start, then earlier
\* end, then earlier in the list
Before(segs, i, j) ==
    \/ segs[i].start < segs[j].start
    \/ segs[i].start = segs[j].start /\ segs[i].end < segs[j].end
    \/ segs[i].start = segs[j].start /\ segs[i].end = segs[j].end /\ i < j

\* the kept segment with k - 1 kept segments before it
KeptAt(segs, k) ==
    CHOOSE i \in Kept(segs) : Cardinality({j \in Kept(segs) : Before(segs, j, i)}) = k - 1

\* C8 amended: one block per segment whose text is not blank and whose times
\* satisfy 0 <= start < end, ordered by start time (then end time, then
\* position), the k-th block (from 1) carrying index k and the text as
\* srt.make_legal_content leaves it.
C8_BlocksOneBased ==
    SubtitleWritten =>
        subtitle.data =
            Concat([k \in 1..Cardinality(Kept(transcription)) |->
                      Block(k, [transcription[KeptAt(transcription, k)] EXCEPT
                                   !.text = make_legal_content(@)])])

\* two segments given out of order, both kept: the file starts with the block
\* of the second, under index 1
C8_Witness ==
    /\ SubtitleWritten
    /\ Len(transcription) = 2
    /\ Kept(transcription) = {1, 2}
    /\ transcription[2].start < transcription[1].start
    /\ SubSeq(subtitle.data, 1, Len(Block(1, transcription[2]))) = Block(1, transcription[2])
    /\ transcription[2].text = <<"1", "2">>

----------------------------------------------------------------------------
(* Claims about a run of the script (specification Spec) *)

Count(op, what) == Cardinality({i \in 1..Len(events) : events[i] = Event(op, what)})

\* the completions received so far, one after the other
Completions(calls) ==
    Concat([k \in 1..Len(calls) |->
              IF calls[k].outcome.kind = "ok" THEN calls[k].outcome.text ELSE <<>>])

\* the template up to its placeholder
TemplatePrefix ==
    SubSeq(summarization_prompt_template, 1,
           Len(summarization_prompt_template) - Len(Placeholder))

\* C1: after a run in which every request succeeded, one request was made per
\* chunk, in chunk order, each with the prompt built from its chunk, and what
\* the run added to summary.txt is the completions in that order.
C1_SummaryBlocksInOrder ==
    pc = "done" =>
        /\ Len(api_calls) = Len(chunks)
        /\ \A k \in 1..Len(chunks) :
               /\ api_calls[k].prompt = TemplatePrefix \o chunks[k]
               /\ api_calls[k].outcome.kind = "ok"
               /\ paragraph_summaries[k] = api_calls[k].outcome.text
        /\ Len(paragraph_summaries) = Len(chunks)
        /\ summary_txt.data = start_summary.data \o Completions(api_calls)
        /\ summary_txt.buf = <<>>
        /\ Count("write", "summary.txt") = Len(chunks)

\* a run over two different chunks with two different completions, on a
\* summary.txt that was not empty
C1_Witness ==
    /\ pc = "done"
    /\ Len(chunks) = 2
    /\ chunks[1] # chunks[2]
    /\ api_calls[1].outcome.text # api_calls[2].outcome.text
    /\ start_summary.data # <<>>

\* C2 (specification SpecRerun): after a second complete run on the same audio
\* and the output directory of a complete run,
\* subtitle.srt and raw_sub.txt hold only what the second run wrote, and
\* summary.txt holds what it held before the first run, the first run's
\* summaries, then the second run's summaries.
C2_RerunOverwritesAndAppends ==
    (run > 1 /\ pc = "done" /\ prev_run.pc = "done") =>
        /\ subtitle.data = compose(MakeSubtitles(transcription))
        /\ raw_sub.data = extract_text(subtitle.data)
        /\ summary_txt.data =
               start_summary.data \o Concat(paragraph_summaries)
        /\ start_summary.data = prev_run.start.data \o Concat(prev_run.summaries)

\* both runs wrote a summary, not the same one, and both wrote the subtitles
\* of the audio
C2_Witness ==
    /\ run = 2 /\ pc = "done" /\ prev_run.pc = "done"
    /\ prev_run.summaries # <<>>
    /\ paragraph_summaries # <<>>
    /\ prev_run.summaries # paragraph_summaries
    /\ prev_run.srt = srt_content
    /\ srt_content # <<>>
    /\ subtitle.data = srt_content
    /\ start_summary.data # <<>>

\* C3: once a request has failed, it is the last request of the run, the run
\* has ended, nothing was written for its chunk, and summary.txt holds what it
\* held before the run and the summaries of the chunks before it, in order.
C3_ErrorAborts ==
    \A k \in 1..Len(api_calls) :
        api_calls[k].outcome.kind = "error" =>
            /\ k = Len(api_calls)
            /\ pc = "aborted"
            /\ Len(paragraph_summaries) = k - 1
            /\ Count("write", "summary.txt") = k - 1
            /\ summary_txt.data = start_summary.data \o Completions(api_calls)
            /\ summary_txt.buf = <<>>

\* the request for the second chunk failed
C3_Witness ==
    /\ pc = "aborted"
    /\ Len(api_calls) = 2
    /\ api_calls[2].outcome.kind = "error"
    /\ api_calls[1].outcome.kind = "ok"
    /\ start_summary.data # <<>>

\* C4: when the transcriber returns no segment, the extracted text is empty,
\* there is no chunk, no request is made, and summary.txt stays as the run
\* found it: absent if it was absent.
C4_NoSegmentsNoSummary ==
    transcription = <<>> =>
        /\ pure_text \in {None, <<>>}
        /\ chunks \in {NoList, <<>>}
        /\ api_calls = <<>>
        /\ summary_txt = start_summary
        /\ Count("open", "summary.txt") = 0

\* a finished run without segments in a directory without summary.txt
C4_Witness ==
    /\ pc = "done"
    /\ transcription = <<>>
    /\ pure_text = <<>>
    /\ chunks = <<>>
    /\ ~summary_txt.exists

Stages == <<"load", "transcribe", "extract", "chunk", "summarize">>

\* the stages started so far, in order
StagesStarted ==
    LET at == {i \in 1..Len(events) : events[i].op = "stage"}
    IN  [k \in 1..Cardinality(at) |->
            events[CHOOSE i \in at : Cardinality({j \in at : j < i}) = k - 1].what]

\* C9: a read of subtitle.srt comes after its write and its close, with the
\* file not open, and gets the whole subtitle content; the stages start in
\* the order load, transcribe, extract, chunk, summarize; raw_sub.txt is
\* complete before the chunker starts.
C9_WrittenBeforeRead ==
    /\ \A i \in 1..Len(events) :
           events[i] = Event("read", "subtitle.srt") =>
               \E w \in 1..i, c \in 1..i :
                   /\ w < c /\ c < i
                   /\ events[w] = Event("write", "subtitle.srt")
                   /\ events[c] = Event("close", "subtitle.srt")
                   /\ \A j \in c..i : events[j] # Event("open", "subtitle.srt")
    /\ content # None => content = srt_content
    /\ ex_content # None => ex_content = srt_content
    /\ StagesStarted = SubSeq(Stages, 1, Len(StagesStarted))
    /\ Count("stage", "chunk") > 0 => raw_sub.data = pure_text /\ raw_sub.mode = "closed"

\* the extractor has read the subtitles of two segments
C9_Witness ==
    /\ pc = "extract_sub"
    /\ Len(transcription) = 2
    /\ ex_content # <<>>
    /\ content = ex_content
    /\ subtitle.data = srt_content

\* C10 as stated: in a complete run subtitle.srt is written once and read
\* once, and each stage runs once.
C10_Original ==
    pc = "done" =>
        /\ Count("write", "subtitle.srt") = 1
        /\ Count("read", "subtitle.srt") = 1
        /\ \A k \in 1..Len(Stages) : Count("stage", Stages[k]) = 1

\* C10 amended: in a complete run subtitle.srt is written once and read twice
\* (lines 62-63, whose result is not used, and extract_and_save_text), and each
\* of the five stages runs once; in no run is any of these numbers exceeded.
C10_WrittenOnceReadTwice ==
    /\ Count("write", "subtitle.srt") <= 1
    /\ Count("read", "subtitle.srt") <= 2
    /\ \A k \in 1..Len(Stages) : Count("stage", Stages[k]) <= 1
    /\ pc = "done" =>
           /\ Count("write", "subtitle.srt") = 1
           /\ Count("read", "subtitle.srt") = 2
           /\ \A k \in 1..Len(Stages) : Count("stage", Stages[k]) = 1

\* a run that summarized two chunks has ended
C10_Witness ==
    /\ pc = "done"
    /\ Len(paragraph_summaries) = 2
    /\ content = srt_content
    /\ ex_content = srt_content

====
